---- MODULE Spec2Model ----
(* Model of src/check-package-freshness.js: the PackageFreshnessChecker     *)
(* class (version comparison, audit classification, outdated analysis, the  *)
(* run() driver with its try/catch) and of the console output it produces.  *)
EXTENDS Integers, Sequences, FiniteSets, TLC

VARIABLES
  ALLOW_NETWORK_FAILURE, \* CONFIG.ALLOW_NETWORK_FAILURE
  VERBOSE,               \* CONFIG.VERBOSE
  pc,                    \* position of run(): new, outdated, audit, join, analyze, report, catch, done
  runNo,                 \* number of run() invocations made on this checker
  pkgFound,              \* result of fs.existsSync(packageJsonPath) in the current run
  outdatedRes,           \* what the `npm outdated` child process produced
  auditRes,              \* what the `npm audit` child process produced
  outdated,              \* value the getOutdatedPackages() promise resolved to
  fault,                 \* pending rejection / thrown error ("none" when there is none)
  warnings,              \* this.warnings
  errors,                \* this.errors
  out,                   \* lines written to the console by the current run()
  exitCode,              \* value returned by the current run() (-1 while running)
  verdicts,              \* what each completed run() returned, with this.warnings/this.errors then
  outdatedPromise,       \* promise of getOutdatedPackages() in the current run: none, fulfilled, rejected
  auditPromise,          \* promise of checkSecurityVulnerabilities() in the current run
  current, latest,       \* arguments of getVersionDifference (version specification)
  versionDiff            \* its result (version specification)

vars == <<ALLOW_NETWORK_FAILURE, VERBOSE, pc, runNo, pkgFound, outdatedRes,
          auditRes, outdated, fault, warnings, errors, out, exitCode, verdicts,
          outdatedPromise, auditPromise, current, latest, versionDiff>>

-----------------------------------------------------------------------------
(* Bounds *)
MaxComponent == 2   \* version components range over 0..MaxComponent
MaxEntries == 2     \* entries in an outdated report
MaxVulns == 2       \* entries in an audit report
MaxRuns == 2        \* run() invocations on one checker

-----------------------------------------------------------------------------
(* Version strings.  A string is the sequence of its dot-separated tokens:  *)
(* a token n >= 0 is the decimal number n, the token -1 is any text that    *)
(* does not start with a digit ("x", "^1", "beta").  A JavaScript value is  *)
(* either such a string or undefined.                                       *)
NonNum == -1
Str(s) == [defined |-> TRUE, s |-> s]
Undefined == [defined |-> FALSE, s |-> <<>>]

Null == [major |-> -1, minor |-> -1, patch |-> -1]

\* version.match(/^(\d+)\.(\d+)\.(\d+)/): three leading numeric tokens,
\* whatever follows them is ignored; anything else gives null.
parseVersion(version) ==
  LET s == version.s IN
  IF Len(s) >= 3 /\ s[1] # NonNum /\ s[2] # NonNum /\ s[3] # NonNum
  THEN [major |-> s[1], minor |-> s[2], patch |-> s[3]]
  ELSE Null

\* "TypeError" stands for the exception raised by undefined.match(...)
getVersionDifference(cur, lat) ==
  IF ~cur.defined \/ ~lat.defined THEN "TypeError"
  ELSE LET curr == parseVersion(cur)
           lt == parseVersion(lat) IN
       IF curr = Null \/ lt = Null THEN "unknown"
       ELSE IF lt.major > curr.major THEN "major"
       ELSE IF lt.minor > curr.minor THEN "minor"
       ELSE IF lt.patch > curr.patch THEN "patch"
       ELSE "none"

Components == 0..MaxComponent
ParseableStrings == {Str(<<a, b, c>>) : a \in Components, b \in Components, c \in Components}
VersionStrings ==
  ParseableStrings \cup
  { Str(<<1, 2, NonNum>>),      \* "1.2.x"
    Str(<<1, 2>>),              \* "1.2"
    Str(<<NonNum, 1, 2, 3>>),   \* "^1.2.3" / "abc"
    Str(<<1, 2, 0, NonNum>>) }  \* "1.2.0-beta.1"

-----------------------------------------------------------------------------
(* Messages.  A message is the template that produced it (kind) and the     *)
(* values interpolated into it.                                             *)
Msg(kind, pkg, cur, lat, diff, n) ==
  [kind |-> kind, pkg |-> pkg, cur |-> cur, lat |-> lat, diff |-> diff, n |-> n]
Text(kind) == Msg(kind, 0, Undefined, Undefined, "", 0)
Counted(kind, n) == Msg(kind, 0, Undefined, Undefined, "", n)
\* `  ${packageName}: ${info.current} -> ${info.latest} (${versionDiff})` under a prefix
EntryMsg(kind, e, diff) == Msg(kind, e.name, e.current, e.latest, diff, 0)

\* a console line: the call that wrote it and the message
Line(via, m) == [via |-> via, m |-> m]

\* a plausible slip: warnings are shown in brief mode as errors are
PrintsWarnToo(type) == VERBOSE \/ type = "error" \/ type = "warn"

\* the guard of log(): CONFIG.VERBOSE || type === 'error'
Prints(type) == VERBOSE \/ type = "error"

\* log(message, type): the lines it adds to the console
log(m, type) == IF Prints(type) THEN <<Line("log:" \o type, m)>> ELSE <<>>

-----------------------------------------------------------------------------
(* What the two child processes can produce.                                *)
V(a, b, c) == Str(<<a, b, c>>)
EntryShapes ==
  { <<V(1,0,0), V(2,0,0)>>,             \* major behind
    <<V(1,0,0), V(1,1,0)>>,             \* minor behind
    <<V(1,0,0), V(1,0,1)>>,             \* patch behind
    <<V(1,0,0), V(1,0,0)>>,             \* equal
    <<V(2,0,0), V(1,1,0)>>,             \* installed version ahead of latest
    <<Str(<<1, 2, NonNum>>), V(1,2,0)>>,\* "1.2.x": unparseable
    <<Undefined, V(1,0,0)>> }           \* no `current` field (package not installed)

\* an outdated report: entries in the iteration order of the parsed object,
\* keyed by distinct package names (the position serves as the name)
Reports ==
  UNION { { [i \in 1..n |-> [name |-> i, current |-> f[i][1], latest |-> f[i][2]]] :
            f \in [1..n -> EntryShapes] } : n \in 0..MaxEntries }

\* throw: execSync timed out / failed, or JSON.parse rejected the output;
\* empty: blank output; json: the parsed report
OutdatedResults ==
  { [kind |-> "throw", report |-> <<>>], [kind |-> "empty", report |-> <<>>] }
  \cup { [kind |-> "json", report |-> r] : r \in Reports }

\* severity of a vulnerability record; "absent" is a record without the
\* field, "malformed" any value that is not one of the four levels
Severities == {"low", "moderate", "high", "critical", "absent", "malformed"}

\* Object.values(audit.vulnerabilities); a report without the field is the
\* empty sequence
VulnLists == UNION { [1..n -> Severities] : n \in 0..MaxVulns }

AuditResults ==
  { [kind |-> "throw", vulns |-> <<>>] } \cup { [kind |-> "json", vulns |-> v] : v \in VulnLists }

NoOutdated == [kind |-> "none", report |-> <<>>]
NoAudit == [kind |-> "none", vulns |-> <<>>]

-----------------------------------------------------------------------------
(* Helpers of the class                                                     *)

\* a plausible slip: 'moderate' counted as blocking too
highSeverityWithModerate(vulns) ==
  SelectSeq(vulns, LAMBDA sev : sev \in {"moderate", "high", "critical"})

\* Object.values(...).filter(vuln => ['high','critical'].includes(vuln.severity))
highSeverity(vulns) == SelectSeq(vulns, LAMBDA sev : sev \in {"high", "critical"})

\* a plausible slip: the strict-policy warning pushed under either policy
auditCatchWarnsAlways == TRUE

\* catch block of checkSecurityVulnerabilities: if (!CONFIG.ALLOW_NETWORK_FAILURE)
auditCatchWarns == ~ALLOW_NETWORK_FAILURE

\* a plausible slip: the two arms of the conditional swapped
catchExitCodeSwapped == IF ALLOW_NETWORK_FAILURE THEN 1 ELSE 0

\* catch block of run(): return CONFIG.ALLOW_NETWORK_FAILURE ? 0 : 1
catchExitCode == IF ALLOW_NETWORK_FAILURE THEN 0 ELSE 1

\* a plausible slip: the 'minor' case pushes to this.errors
bucketMinorBlocks(diff) ==
  CASE diff = "major" -> "warnings"
    [] diff = "minor" -> "errors"
    [] diff = "patch" -> "errors"
    [] OTHER -> "none"

\* the switch of analyzeOutdatedPackages: which list a delta is pushed to
bucket(diff) ==
  CASE diff = "major" -> "warnings"
    [] diff = "minor" -> "warnings"
    [] diff = "patch" -> "errors"
    [] OTHER -> "none"

\* the message pushed for a delta
findingFor(e, diff) ==
  CASE diff = "major" -> EntryMsg("Major version available", e, diff)
    [] diff = "minor" -> EntryMsg("Minor version available", e, diff)
    [] OTHER -> EntryMsg("Patch version available", e, diff)

\* the for-loop of analyzeOutdatedPackages from entry i on; st carries
\* this.warnings, this.errors, the console and the thrown error
RECURSIVE analyzeFrom(_, _, _)
analyzeFrom(report, i, st) ==
  IF i > Len(report) THEN st
  ELSE LET e == report[i]
           diff == getVersionDifference(e.current, e.latest) IN
       IF diff = "TypeError" THEN [st EXCEPT !.fault = "TypeError"]
       ELSE analyzeFrom(report, i + 1,
              [ warnings |-> IF bucket(diff) = "warnings"
                             THEN Append(st.warnings, findingFor(e, diff)) ELSE st.warnings,
                errors |-> IF bucket(diff) = "errors"
                           THEN Append(st.errors, findingFor(e, diff)) ELSE st.errors,
                out |-> st.out \o log(EntryMsg("entry", e, diff), "info"),
                fault |-> st.fault ])

\* analyzeOutdatedPackages(outdated)
analyzeOutdatedPackages(report, st) ==
  IF Len(report) = 0 THEN st
  ELSE analyzeFrom(report, 1,
         [st EXCEPT !.out = st.out \o log(Counted("Found outdated packages", Len(report)), "info")])

RECURSIVE printAll(_, _)
\* list.forEach(x => console.log(x))
printAll(list, via) ==
  IF list = <<>> THEN <<>> ELSE <<Line(via, Head(list))>> \o printAll(Tail(list), via)

-----------------------------------------------------------------------------
(* The checker                                                              *)

\* a plausible slip: the two queries awaited one after the other, so that a
\* rejected first query jumps to the catch block before the second is called
afterOutdatedAwaitedFirst(f) == IF f # "none" THEN "catch" ELSE "audit"

\* the array literal passed to Promise.all: checkSecurityVulnerabilities() is
\* called right after getOutdatedPackages() returned its promise, whether that
\* promise was fulfilled or rejected (f is the rejection reason)
afterOutdated(f) == "audit"

\* what a caller observes when run() returns: the exit code and the two
\* lists, and whether that run got past checkPackageExists()
Verdict(code, w, e, reached) ==
  [exitCode |-> code, warnings |-> w, errors |-> e, reached |-> reached]

\* new PackageFreshnessChecker() under some CONFIG
Init ==
  /\ ALLOW_NETWORK_FAILURE \in BOOLEAN
  /\ VERBOSE \in BOOLEAN
  /\ pc = "new"
  /\ runNo = 0
  /\ pkgFound = FALSE
  /\ outdatedRes = NoOutdated
  /\ auditRes = NoAudit
  /\ outdated = <<>>
  /\ fault = "none"
  /\ warnings = <<>>
  /\ errors = <<>>
  /\ out = <<>>
  /\ exitCode = -1
  /\ verdicts = <<>>
  /\ outdatedPromise = "none"
  /\ auditPromise = "none"
  /\ current = Undefined
  /\ latest = Undefined
  /\ versionDiff = "unset"

\* run() is called (on a new checker, or again on one whose run() returned)
\* and reaches `await this.checkPackageExists()`
Run ==
  /\ pc \in {"new", "done"}
  /\ runNo < MaxRuns
  /\ runNo' = runNo + 1
  /\ fault' = "none"
  /\ outdated' = <<>>
  /\ outdatedPromise' = "none"
  /\ auditPromise' = "none"
  /\ \E exists \in BOOLEAN :
       /\ pkgFound' = exists
       /\ IF exists
          THEN /\ out' = <<>>
               /\ exitCode' = -1
               /\ pc' = "outdated"
               /\ verdicts' = verdicts
          ELSE /\ out' = log(Text("No package.json found, skipping"), "warn")
               /\ exitCode' = 0
               /\ pc' = "done"
               /\ verdicts' = Append(verdicts, Verdict(0, warnings, errors, FALSE))
  /\ UNCHANGED <<ALLOW_NETWORK_FAILURE, VERBOSE, outdatedRes, auditRes, warnings,
                 errors, current, latest, versionDiff>>

\* getOutdatedPackages(): first element of the Promise.all array.  The
\* registry answers a later run() of the same checker as it answered the first.
GetOutdatedPackages ==
  /\ pc = "outdated"
  /\ \E r \in (IF outdatedRes.kind = "none" THEN OutdatedResults ELSE {outdatedRes}) :
       /\ outdatedRes' = r
       /\ CASE r.kind = "throw" /\ ALLOW_NETWORK_FAILURE ->
                 /\ out' = out \o log(Text("Checking for outdated packages..."), "info")
                               \o log(Text("Network timeout or registry unavailable - allowing commit"), "warn")
                 /\ outdated' = <<>>
                 /\ fault' = fault
            [] r.kind = "throw" /\ ~ALLOW_NETWORK_FAILURE ->
                 /\ out' = out \o log(Text("Checking for outdated packages..."), "info")
                 /\ outdated' = <<>>
                 /\ fault' = "Failed to check package versions"
            [] r.kind = "empty" ->
                 /\ out' = out \o log(Text("Checking for outdated packages..."), "info")
                               \o log(Text("All packages are up to date!"), "info")
                 /\ outdated' = <<>>
                 /\ fault' = fault
            [] OTHER ->
                 /\ out' = out \o log(Text("Checking for outdated packages..."), "info")
                 /\ outdated' = r.report
                 /\ fault' = fault
  /\ outdatedPromise' = IF fault' # "none" THEN "rejected" ELSE "fulfilled"
  /\ pc' = afterOutdated(fault')
  /\ UNCHANGED <<ALLOW_NETWORK_FAILURE, VERBOSE, runNo, pkgFound, auditRes, warnings,
                 errors, exitCode, verdicts, auditPromise, current, latest, versionDiff>>

\* checkSecurityVulnerabilities(): second element of the Promise.all array;
\* it is called whether or not the first promise was rejected
CheckSecurityVulnerabilities ==
  /\ pc = "audit"
  /\ \E r \in (IF auditRes.kind = "none" THEN AuditResults ELSE {auditRes}) :
       /\ auditRes' = r
       /\ IF r.kind = "throw"
          THEN /\ warnings' = IF auditCatchWarns
                              THEN Append(warnings, Text("Could not check security vulnerabilities"))
                              ELSE warnings
               /\ errors' = errors
          ELSE /\ warnings' = warnings
               /\ errors' = IF Len(r.vulns) > 0 /\ Len(highSeverity(r.vulns)) > 0
                            THEN Append(errors, Counted("high/critical security vulnerabilities found",
                                                        Len(highSeverity(r.vulns))))
                            ELSE errors
  /\ out' = out \o log(Text("Checking for security vulnerabilities..."), "info")
  /\ auditPromise' = "fulfilled"
  /\ pc' = "join"
  /\ UNCHANGED <<ALLOW_NETWORK_FAILURE, VERBOSE, runNo, pkgFound, outdatedRes, outdated,
                 fault, exitCode, verdicts, outdatedPromise, current, latest, versionDiff>>

\* `await Promise.all([...])` resumes: a rejection goes to the catch block
AwaitQueries ==
  /\ pc = "join"
  /\ pc' = IF fault # "none" THEN "catch" ELSE "analyze"
  /\ UNCHANGED <<ALLOW_NETWORK_FAILURE, VERBOSE, runNo, pkgFound, outdatedRes, auditRes,
                 outdated, fault, warnings, errors, out, exitCode, verdicts,
                 outdatedPromise, auditPromise, current, latest, versionDiff>>

\* this.analyzeOutdatedPackages(outdated)
AnalyzeOutdatedPackages ==
  /\ pc = "analyze"
  /\ LET st == analyzeOutdatedPackages(outdated,
                 [warnings |-> warnings, errors |-> errors, out |-> out, fault |-> fault]) IN
       /\ warnings' = st.warnings
       /\ errors' = st.errors
       /\ out' = st.out
       /\ fault' = st.fault
       /\ pc' = IF st.fault # "none" THEN "catch" ELSE "report"
  /\ UNCHANGED <<ALLOW_NETWORK_FAILURE, VERBOSE, runNo, pkgFound, outdatedRes, auditRes,
                 outdated, exitCode, verdicts, outdatedPromise, auditPromise, current, latest, versionDiff>>

\* "Report results" to the return statement
ReportResults ==
  /\ pc = "report"
  /\ IF Len(errors) > 0
     THEN /\ out' = out \o <<Line("console.log", Text("Pre-commit check FAILED:"))>>
                        \o printAll(errors, "console.log:error")
                        \o <<Line("console.log", Text("Please address these issues before committing.")),
                             Line("console.log", Text("Hint: Run npm update or npm audit fix"))>>
          /\ exitCode' = 1
     ELSE /\ out' = out
                    \o (IF Len(warnings) > 0
                        THEN <<Line("console.log", Text("Package freshness warnings:"))>>
                             \o printAll(warnings, "console.log:warning")
                             \o <<Line("console.log", Text("Consider updating these packages when convenient."))>>
                        ELSE <<>>)
                    \o (IF Len(warnings) = 0 /\ Len(errors) = 0
                        THEN log(Text("Package freshness check passed!"), "info")
                        ELSE <<>>)
          /\ exitCode' = 0
  /\ pc' = "done"
  /\ verdicts' = Append(verdicts, Verdict(exitCode', warnings, errors, TRUE))
  /\ UNCHANGED <<ALLOW_NETWORK_FAILURE, VERBOSE, runNo, pkgFound, outdatedRes, auditRes,
                 outdated, fault, warnings, errors, outdatedPromise, auditPromise, current, latest, versionDiff>>

\* the catch block of run()
CatchFault ==
  /\ pc = "catch"
  /\ out' = Append(out, Line("console.error", Text("Package freshness check failed")))
  /\ exitCode' = catchExitCode
  /\ pc' = "done"
  /\ verdicts' = Append(verdicts, Verdict(exitCode', warnings, errors, TRUE))
  /\ UNCHANGED <<ALLOW_NETWORK_FAILURE, VERBOSE, runNo, pkgFound, outdatedRes, auditRes,
                 outdated, fault, warnings, errors, outdatedPromise, auditPromise, current, latest, versionDiff>>

Next ==
  \/ Run
  \/ GetOutdatedPackages
  \/ CheckSecurityVulnerabilities
  \/ AwaitQueries
  \/ AnalyzeOutdatedPackages
  \/ ReportResults
  \/ CatchFault

Spec == Init /\ [][Next]_vars

-----------------------------------------------------------------------------
(* The version comparator on its own: every pair of version strings          *)

VersionInit ==
  /\ ALLOW_NETWORK_FAILURE = TRUE
  /\ VERBOSE = TRUE
  /\ pc = "new"
  /\ runNo = 0
  /\ pkgFound = FALSE
  /\ outdatedRes = NoOutdated
  /\ auditRes = NoAudit
  /\ outdated = <<>>
  /\ fault = "none"
  /\ warnings = <<>>
  /\ errors = <<>>
  /\ out = <<>>
  /\ exitCode = -1
  /\ verdicts = <<>>
  /\ outdatedPromise = "none"
  /\ auditPromise = "none"
  /\ current \in VersionStrings
  /\ latest \in VersionStrings
  /\ versionDiff = "unset"

CompareVersions ==
  /\ versionDiff = "unset"
  /\ versionDiff' = getVersionDifference(current, latest)
  /\ UNCHANGED <<ALLOW_NETWORK_FAILURE, VERBOSE, pc, runNo, pkgFound, outdatedRes,
                 auditRes, outdated, fault, warnings, errors, out, exitCode, verdicts,
                 outdatedPromise, auditPromise, current, latest>>

VersionNext == CompareVersions

VersionSpec == VersionInit /\ [][VersionNext]_vars

-----------------------------------------------------------------------------
(* Properties                                                               *)

\* the current run() has returned after getting past checkPackageExists()
Returned == pc = "done" /\ pkgFound

\* the delta the comparator assigns to entry i of a report
DeltaOf(report, i) == getVersionDifference(report[i].current, report[i].latest)
HasDelta(report, d) == \E i \in DOMAIN report : DeltaOf(report, i) = d

\* number of vulnerability records whose severity is high or critical
BlockingCount(vulns) == Cardinality({i \in DOMAIN vulns : vulns[i] = "high" \/ vulns[i] = "critical"})

C2_PatchBlocks ==
  (Returned /\ outdatedRes.kind = "json" /\ HasDelta(outdatedRes.report, "patch"))
    => exitCode = 1

\* C3: a non-empty outdated report with only major/minor deltas and an audit
\* report without high/critical entries gives exit code 0, non-empty warnings
\* and empty errors.
C3_MajorMinorOnlyWarn ==
  ( /\ Returned
    /\ outdatedRes.kind = "json"
    /\ Len(outdatedRes.report) > 0
    /\ \A i \in DOMAIN outdatedRes.report : DeltaOf(outdatedRes.report, i) \in {"major", "minor"}
    /\ auditRes.kind = "json"
    /\ BlockingCount(auditRes.vulns) = 0 )
  => (exitCode = 0 /\ warnings # <<>> /\ errors = <<>>)

C3_Witness ==
  /\ Returned
  /\ outdatedRes.kind = "json"
  /\ Len(outdatedRes.report) = 2
  /\ DeltaOf(outdatedRes.report, 1) = "major"
  /\ DeltaOf(outdatedRes.report, 2) = "minor"
  /\ auditRes.kind = "json"
  /\ Len(auditRes.vulns) > 0
  /\ BlockingCount(auditRes.vulns) = 0
  /\ exitCode = 0
  /\ Len(warnings) >= 2

\* C4: under ALLOW_NETWORK_FAILURE = false a failure of either query is
\* fatal: run() returns 1 and prints a failure message.
C4_StrictFailureIsFatal ==
  ( /\ Returned
    /\ ~ALLOW_NETWORK_FAILURE
    /\ (outdatedRes.kind = "throw" \/ auditRes.kind = "throw") )
  => ( /\ exitCode = 1
       /\ \E j \in DOMAIN out : out[j].via = "console.error" )

\* C5: under ALLOW_NETWORK_FAILURE = true a failing query finds nothing: the
\* failing outdated query resolves to the empty report without a fault, the
\* failing audit query leaves this.errors and this.warnings as they were, and
\* a run in which every query that did not fail reports nothing blocking
\* returns 0.
C5_DegradedFindsNothing ==
  [][ ALLOW_NETWORK_FAILURE =>
        /\ (pc = "outdated" /\ pc' = "audit" /\ outdatedRes'.kind = "throw")
             => (outdated' = <<>> /\ fault' = "none" /\ errors' = errors /\ warnings' = warnings)
        /\ (pc = "audit" /\ pc' = "join" /\ auditRes'.kind = "throw")
             => (errors' = errors /\ warnings' = warnings /\ fault' = fault)
        /\ ( /\ pc # "done" /\ pc' = "done" /\ pkgFound'
             /\ (outdatedRes'.kind = "throw" \/ auditRes'.kind = "throw")
             /\ (outdatedRes'.kind = "json" => ~HasDelta(outdatedRes'.report, "patch"))
             /\ (auditRes'.kind = "json" => BlockingCount(auditRes'.vulns) = 0) )
             => exitCode' = 0
    ]_vars

\* the audit query failed under the tolerant policy: the run kept only the
\* warning of the outdated analysis and passed
C5_Witness ==
  /\ Returned
  /\ ALLOW_NETWORK_FAILURE
  /\ auditRes.kind = "throw"
  /\ outdatedRes.kind = "json"
  /\ HasDelta(outdatedRes.report, "major")
  /\ Len(warnings) = 1
  /\ errors = <<>>
  /\ exitCode = 0

\* the level of the first component at which latest exceeds current, "none"
\* when latest is not the greater version
FirstGreaterLevel(c, l) ==
  IF l.major # c.major THEN (IF l.major > c.major THEN "major" ELSE "none")
  ELSE IF l.minor # c.minor THEN (IF l.minor > c.minor THEN "minor" ELSE "none")
  ELSE IF l.patch > c.patch THEN "patch"
  ELSE "none"

\* C6: for parseable versions getVersionDifference returns the level of the
\* first differing component when latest is the greater there, and "none"
\* whenever latest is not greater than current as a version.
C6_FirstDifferingComponent ==
  ( /\ versionDiff # "unset"
    /\ current.defined /\ latest.defined
    /\ parseVersion(current) # Null
    /\ parseVersion(latest) # Null )
  => versionDiff = FirstGreaterLevel(parseVersion(current), parseVersion(latest))

\* the audit step of a run whose audit query returned a parseable report
AuditStepOnReport == pc = "audit" /\ pc' = "join" /\ auditRes'.kind = "json"

\* C7 (as stated): the audit check adds one blocking finding per high/critical
\* entry, and no warning.
C7_OneFindingPerEntry ==
  [][ AuditStepOnReport =>
        /\ Len(errors') = Len(errors) + BlockingCount(auditRes'.vulns)
        /\ warnings' = warnings ]_vars

\* C7 (amended): the audit check adds exactly one blocking finding, carrying
\* the number of high/critical entries, when there is at least one such entry,
\* and nothing otherwise; low, moderate, absent and malformed severities add
\* no finding and are not counted.
C7_OneFindingWithCount ==
  [][ AuditStepOnReport =>
        /\ errors' = IF BlockingCount(auditRes'.vulns) > 0
                     THEN Append(errors, Counted("high/critical security vulnerabilities found",
                                                 BlockingCount(auditRes'.vulns)))
                     ELSE errors
        /\ warnings' = warnings ]_vars

\* two blocking entries produced a single finding
C7_Witness ==
  /\ pc = "join"
  /\ runNo = 1
  /\ auditRes.kind = "json"
  /\ BlockingCount(auditRes.vulns) = 2
  /\ Len(errors) = 1
  /\ errors[1].n = 2

\* C8: a second run() on the same checker over the same two reports returns
\* the verdict the first returned: same exit code, same warnings, same errors.
C8_SecondRunSameVerdict ==
  \A i \in DOMAIN verdicts : \A j \in DOMAIN verdicts :
    (verdicts[i].reached /\ verdicts[j].reached) => verdicts[i] = verdicts[j]

\* C9 (as stated): every run() returns 0 or 1 having printed at least one
\* message, and no position of run() is left without a next step.
C9_AlwaysPrints ==
  /\ pc \notin {"new", "done"} => ENABLED Next
  /\ pc = "done" => (exitCode \in {0, 1} /\ Len(out) >= 1)

\* C9 (amended): every run() returns 0 or 1 and no fault escapes it; it has
\* printed at least one message exactly when VERBOSE is true or the run got
\* past checkPackageExists() and ends with a caught fault, a blocking finding
\* or a warning.
C9_PrintsUnlessBrief ==
  /\ pc \notin {"new", "done"} => ENABLED Next
  /\ pc = "done" =>
       /\ exitCode \in {0, 1}
       /\ (Len(out) >= 1) <=>
            (VERBOSE \/ (pkgFound /\ (fault # "none" \/ errors # <<>> \/ warnings # <<>>)))

\* a brief-mode run that found nothing returned 0 in silence
C9_Witness ==
  /\ Returned
  /\ ~VERBOSE
  /\ outdatedRes.kind = "json"
  /\ auditRes.kind = "json"
  /\ out = <<>>
  /\ exitCode = 0

\* positions of the console lines that list a blocking finding / a warning
ErrorLines == {j \in DOMAIN out : out[j].via = "console.log:error"}
WarningLines == {j \in DOMAIN out : out[j].via = "console.log:warning"}

\* C10: a run ending with exit code 1 that accumulated both blocking findings
\* and warnings prints the FAILED block with every blocking finding and then
\* every warning; no warning line precedes a blocking-finding line.
C10_ErrorsThenWarnings ==
  /\ \A j \in ErrorLines : \A k \in WarningLines : j < k
  /\ (pc = "done" /\ exitCode = 1 /\ errors # <<>> /\ warnings # <<>>) =>
       /\ \E h \in DOMAIN out : out[h] = Line("console.log", Text("Pre-commit check FAILED:"))
       /\ \A i \in DOMAIN errors : \E j \in ErrorLines : out[j].m = errors[i]
       /\ \A i \in DOMAIN warnings : \E k \in WarningLines : out[k].m = warnings[i]

\* the terminal state of a query in the current run, in the vocabulary of the
\* degradation controller: fatal when its promise was rejected, degraded when
\* the child process failed and the promise was fulfilled all the same,
\* succeeded when it was fulfilled with the output of the child process
QueryState(promise, res) ==
  CASE promise = "none" -> "idle"
    [] promise = "rejected" -> "fatal"
    [] promise = "fulfilled" /\ res.kind = "throw" -> "degraded"
    [] OTHER -> "succeeded"

Terminal == {"succeeded", "degraded", "fatal"}
BothSettled ==
  /\ QueryState(outdatedPromise, outdatedRes) \in Terminal
  /\ QueryState(auditPromise, auditRes) \in Terminal

\* the console shows that analyzeOutdatedPackages has gone through the report
AnalysisPrinted ==
  \E j \in DOMAIN out : out[j].m.kind \in {"Found outdated packages", "entry"}

\* C11: in a run that reaches the queries both queries are issued and each
\* settles whatever the outcome of the other (a rejected outdated query
\* leaves the audit query to be issued next); the report is analysed and
\* the exit code decided only once both have settled.
C11_BothQueriesSettleFirst ==
  /\ pc = "audit" =>
       /\ QueryState(outdatedPromise, outdatedRes) \in Terminal
       /\ QueryState(auditPromise, auditRes) = "idle"
       /\ ENABLED CheckSecurityVulnerabilities
  /\ pc \in {"join", "analyze", "report", "catch"} => BothSettled
  /\ (pkgFound /\ (AnalysisPrinted \/ exitCode # -1)) => BothSettled
  /\ Returned =>
       /\ QueryState(outdatedPromise, outdatedRes) = "fatal"
            <=> (outdatedRes.kind = "throw" /\ ~ALLOW_NETWORK_FAILURE)
       /\ QueryState(auditPromise, auditRes) = "degraded" <=> auditRes.kind = "throw"

\* the outdated query was fatal and the audit query still ran and reported
C11_Witness ==
  /\ pc = "catch"
  /\ QueryState(outdatedPromise, outdatedRes) = "fatal"
  /\ QueryState(auditPromise, auditRes) = "succeeded"
  /\ BlockingCount(auditRes.vulns) > 0
  /\ errors # <<>>

====
